---- MODULE Spec2Model ----
(***************************************************************************)
(* PManager (params_manager_py/params_manager.py): the parameter store     *)
(* _params_data, the bulk loader init()/_parse_params_file(), the public   *)
(* declare_byte_array_parameter() and the update callback                  *)
(* _on_set_parameters_callback(), together with the host node whose        *)
(* attributes the callback reads (getattr/hasattr) and writes (setattr).   *)
(*                                                                         *)
(* Parameter names are sequences of code points, so that the order Python  *)
(* uses in sorted() is computed and not assumed.  Texts that the code only *)
(* compares for equality (attribute names, type tags of the YAML file,     *)
(* boolean texts) are TLA+ strings.                                        *)
(***************************************************************************)
EXTENDS Integers, Sequences, FiniteSets, TLC

\* ---------------------------------------------------------------- bounds
\* Longest batch handed to the update callback.
MaxBatch == 3

\* ---------------------------------------------------------------- constants
\* rcl_interfaces/msg/ParameterType, as used by the declare methods.
PARAMETER_BOOL == 1
PARAMETER_INTEGER == 2
PARAMETER_DOUBLE == 3
PARAMETER_STRING == 4
PARAMETER_BYTE_ARRAY == 5
PARAMETER_BOOL_ARRAY == 6
PARAMETER_INTEGER_ARRAY == 7
PARAMETER_DOUBLE_ARRAY == 8
PARAMETER_STRING_ARRAY == 9

\* Parameter names: "a", "ab", "b" (code points 1 = 'a', 2 = 'b').
Names == {<<1>>, <<1, 2>>, <<2>>}

\* "dua.params_file_path", the bootstrap parameter init() declares.
DuaParamsFilePath == <<4, 21, 1>>

\* dict.get(name, None) and getattr(obj, name, None) return None when absent.
None == [kind |-> "none", val |-> 0]

\* ---------------------------------------------------------------- host node
\* The attributes of the node the manager was built with.  "x" and "y" are
\* plain data fields, "ro" is a property without a setter, "chk" and "boom"
\* are methods.  Any other name (e.g. "ghost", "") is not an attribute.
Field(v) == [kind |-> "field", val |-> v]
PropertyAttr == [kind |-> "property", val |-> 0]
MethodAttr == [kind |-> "method", val |-> 0]

InitialAttrs ==
    [n \in {"x", "y", "ro", "chk", "boom"} |->
        CASE n = "x" -> Field(0)
          [] n = "y" -> Field(0)
          [] n = "ro" -> PropertyAttr
          [] OTHER -> MethodAttr]

\* What a host method does when called with parameter p: chk accepts every
\* value but 2, boom raises.
CallMethod(name, p) ==
    CASE name = "chk" -> IF p.value = 2 THEN "reject" ELSE "accept"
      [] name = "boom" -> "raise"
      [] OTHER -> "accept"

\* getattr(self._node, name, None)
GetAttr(at, name) == IF name \in DOMAIN at THEN at[name] ELSE None

\* callable(validator)
Callable(a) == a.kind = "method"

\* hasattr(self._node, name)
HasAttr(at, name) == name \in DOMAIN at

\* setattr(self._node, name, value) on an existing attribute: a property
\* without setter raises AttributeError, anything else now holds the value.
SetAttrRaises(at, name) == at[name].kind = "property"

SetAttr(at, name, value) == [at EXCEPT ![name] = Field(value)]

\* ---------------------------------------------------------------- update callback
\* Variant: a name the store does not hold gets an entry of no type.
LookupDefaulting(pd, name) ==
    IF name \in DOMAIN pd THEN pd[name]
    ELSE [type |-> 0, var_name |-> "", validator |-> ""]

\* self._params_data.get(p.name, None)
Lookup(pd, name) == IF name \in DOMAIN pd THEN pd[name] ELSE None

\* Variant: the type check is left out.
TypeMismatchNever(p, p_data) == FALSE

\* Variant: an integer is also checked against the range 0..1 that the
\* integer records of the files declare.
TypeMismatchOrOutOfRange(p, p_data) ==
    \/ p.type_ # p_data.type
    \/ p_data.type = PARAMETER_INTEGER /\ p.value \notin 0..1

\* p.type_ != p_data['type']
TypeMismatch(p, p_data) == p.type_ # p_data.type

\* Variant: a type mismatch reported with the text of a failed validation.
TypeMismatchReasonSwapped(name) == <<"Parameter '", name, "' update validation failed">>

\* f"Parameter '{p.name}' type mismatch"
TypeMismatchReason(name) == <<"Parameter '", name, "' type mismatch">>

\* f"Parameter '{p.name}' update validation failed"
ValidationFailedReason(name) == <<"Parameter '", name, "' update validation failed">>

\* reason=''
EmptyReason == <<>>

\* validator = getattr(...); validator is not None and callable(validator)
ValidatorCalled(at, p_data) ==
    LET validator == GetAttr(at, p_data.validator)
    IN  validator # None /\ Callable(validator)

\* Variant: a validator that is named but is no method of the node rejects.
ValidateStrict(at, p_data, p) ==
    IF ValidatorCalled(at, p_data) THEN CallMethod(p_data.validator, p)
    ELSE IF p_data.validator = "" THEN "skip"
    ELSE "reject"

\* The outcome of "validator is not None and callable(validator) and not
\* validator(p)": "skip" when no validator is called, otherwise what the call
\* does (a falsy return rejects, an exception propagates).
Validate(at, p_data, p) ==
    IF ValidatorCalled(at, p_data)
    THEN CallMethod(p_data.validator, p)
    ELSE "skip"

\* Variant: the backing field is never found.
FieldResolvesNever(at, p_data) == FALSE

\* if hasattr(self._node, p_data['var_name'])
FieldResolves(at, p_data) == HasAttr(at, p_data.var_name)

\* The state the loop of the callback carries: the node's attributes and the
\* record of what the loop did (setattr calls, validator calls).
LoopState(at) == [attrs |-> at, writes |-> <<>>, calls |-> <<>>]

Returned(st, i, ok, why) ==
    [outcome |-> "returned", successful |-> ok, reason |-> why,
     attrs |-> st.attrs, writes |-> st.writes, calls |-> st.calls, stop |-> i]

Raised(st, i) ==
    [outcome |-> "raised", successful |-> TRUE, reason |-> EmptyReason,
     attrs |-> st.attrs, writes |-> st.writes, calls |-> st.calls, stop |-> i]

\* for p in params: ... return res
RECURSIVE OnSetParametersLoop(_, _, _, _)
OnSetParametersLoop(pd, params, i, st) ==
    IF i > Len(params)
    THEN Returned(st, i, TRUE, EmptyReason)
    ELSE
      LET p == params[i]
          p_data == Lookup(pd, p.name)
      IN
      IF p_data = None
      THEN OnSetParametersLoop(pd, params, i + 1, st)
      ELSE IF TypeMismatch(p, p_data)
      THEN Returned(st, i, FALSE, TypeMismatchReason(p.name))
      ELSE
        LET verdict == Validate(st.attrs, p_data, p)
            st1 == IF verdict = "skip" THEN st
                   ELSE [st EXCEPT !.calls = Append(@, i)]
        IN
        IF verdict = "raise"
        THEN Raised(st1, i)
        ELSE IF verdict = "reject"
        THEN Returned(st1, i, FALSE, ValidationFailedReason(p.name))
        ELSE IF FieldResolves(st1.attrs, p_data)
        THEN IF SetAttrRaises(st1.attrs, p_data.var_name)
             THEN Raised(st1, i)
             ELSE OnSetParametersLoop(pd, params, i + 1,
                    [st1 EXCEPT
                       !.attrs = SetAttr(@, p_data.var_name, p.value),
                       !.writes = Append(@, [idx |-> i, var |-> p_data.var_name,
                                             value |-> p.value])])
        ELSE OnSetParametersLoop(pd, params, i + 1, st1)

\* PManager._on_set_parameters_callback(params)
OnSetParametersCallback(pd, at, params) ==
    OnSetParametersLoop(pd, params, 1, LoopState(at))

\* ---------------------------------------------------------------- YAML values and conversions
\* A scalar or list the YAML loader produced.
YStr(t) == [kind |-> "str", s |-> t, n |-> 0, elems |-> <<>>]
YInt(k) == [kind |-> "int", s |-> "", n |-> k, elems |-> <<>>]
YBool(b) == [kind |-> "bool", s |-> "", n |-> IF b THEN 1 ELSE 0, elems |-> <<>>]
YList(l) == [kind |-> "list", s |-> "", n |-> 0, elems |-> l]

Ok(v) == [ok |-> TRUE, v |-> v, cause |-> ""]
Fail(c) == [ok |-> FALSE, v |-> YStr(""), cause |-> c]

DecimalTexts == <<"0", "1", "2", "3", "4", "5", "6", "7", "8", "9", "10">>

\* str(v): a bool prints as 'True'/'False', an int in decimal, a str as itself.
PyStr(v) ==
    CASE v.kind = "str" -> v.s
      [] v.kind = "bool" -> IF v.n = 1 THEN "True" ELSE "False"
      [] v.kind = "int" -> IF v.n \in 0..10 THEN DecimalTexts[v.n + 1] ELSE "int"
      [] OTHER -> "[...]"

\* int(v) and float(v): a number is itself, a bool is 0 or 1, a text must be
\* a numeral (ValueError otherwise), a list is a TypeError.
PyNumber(v) ==
    CASE v.kind = "int" -> Ok(YInt(v.n))
      [] v.kind = "bool" -> Ok(YInt(v.n))
      [] v.kind = "str" ->
           IF \E k \in 1..Len(DecimalTexts) : DecimalTexts[k] = v.s
           THEN Ok(YInt((CHOOSE k \in 1..Len(DecimalTexts) : DecimalTexts[k] = v.s) - 1))
           ELSE Fail("ValueError")
      [] OTHER -> Fail("TypeError")

\* Variant: the comparison ignores case (word.lower()).
ParseBoolStrAnyCase(word) ==
    IF word \in {"true", "True", "TRUE"} THEN Ok(YBool(TRUE))
    ELSE IF word \in {"false", "False", "FALSE"} THEN Ok(YBool(FALSE))
    ELSE Fail("ValueError")

\* PManager._parse_bool_str(word)
ParseBoolStr(word) ==
    IF word = "true" \/ word = "True" THEN Ok(YBool(TRUE))
    ELSE IF word = "false" \/ word = "False" THEN Ok(YBool(FALSE))
    ELSE Fail("ValueError")

\* One element conversion of a default_value list.
ConvertScalar(conv, v) ==
    CASE conv = "number" -> PyNumber(v)
      [] conv = "bool" -> ParseBoolStr(PyStr(v))
      [] OTHER -> Ok(YStr(PyStr(v)))

\* for val in list(values['default_value']): default_values.append(conv(val))
RECURSIVE ConvertList(_, _, _, _)
ConvertNext(conv, l, i, acc, r) ==
    IF r.ok THEN ConvertList(conv, l, i + 1, Append(acc, r.v)) ELSE r

ConvertList(conv, l, i, acc) ==
    IF i > Len(l) THEN Ok(YList(acc))
    ELSE ConvertNext(conv, l, i, acc, ConvertScalar(conv, l[i]))

\* The conversion of the elements of a list argument.
ElementConv(conv) ==
    CASE conv = "numberlist" -> "number"
      [] conv = "boollist" -> "bool"
      [] OTHER -> "str"

\* A raw value converted as an argument of a declare call: a scalar by
\* int()/float()/str()/_parse_bool_str(str()), a list element by element
\* (list() of a scalar is a TypeError).
Convert(conv, v) ==
    IF conv \in {"numberlist", "boollist", "strlist"}
    THEN IF v.kind = "list" THEN ConvertList(ElementConv(conv), v.elems, 1, <<>>)
         ELSE Fail("TypeError")
    ELSE ConvertScalar(conv, v)

\* One argument of a declare call: values[field] (KeyError when missing) or
\* values.get(field, '') converted as the call converts it.
EvalArg(values, arg) ==
    IF arg.conv = "optstr"
    THEN Ok(YStr(IF arg.field \in DOMAIN values THEN PyStr(values[arg.field]) ELSE ""))
    ELSE IF arg.field \notin DOMAIN values THEN Fail("KeyError")
    ELSE Convert(arg.conv, values[arg.field])

Arg(f, c) == [field |-> f, conv |-> c]

CommonArgs ==
    <<Arg("description", "str"), Arg("constraints", "str"), Arg("read_only", "bool"),
      Arg("var_name", "optstr"), Arg("validator", "optstr")>>

RangeArgs == <<Arg("min_value", "number"), Arg("max_value", "number"), Arg("step", "number")>>

\* The branch of _parse_params_file a type tag selects: the ParameterType it
\* declares, whether a range is passed, and the arguments in evaluation order.
Branch(t, r, a) == [type |-> t, ranged |-> r, args |-> a]

NoBranch == Branch(0, FALSE, <<>>)

BranchOf(tag) ==
    CASE tag = "integer" ->
           Branch(PARAMETER_INTEGER, TRUE,
                  <<Arg("default_value", "number")>> \o RangeArgs \o CommonArgs)
      [] tag = "double" ->
           Branch(PARAMETER_DOUBLE, TRUE,
                  <<Arg("default_value", "number")>> \o RangeArgs \o CommonArgs)
      [] tag = "bool" ->
           Branch(PARAMETER_BOOL, FALSE, <<Arg("default_value", "bool")>> \o CommonArgs)
      [] tag = "string" ->
           Branch(PARAMETER_STRING, FALSE, <<Arg("default_value", "str")>> \o CommonArgs)
      [] tag = "integer_array" ->
           Branch(PARAMETER_INTEGER_ARRAY, TRUE,
                  <<Arg("default_value", "numberlist")>> \o RangeArgs \o CommonArgs)
      [] tag = "double_array" ->
           Branch(PARAMETER_DOUBLE_ARRAY, TRUE,
                  <<Arg("default_value", "numberlist")>> \o RangeArgs \o CommonArgs)
      [] tag = "bool_array" ->
           Branch(PARAMETER_BOOL_ARRAY, FALSE,
                  <<Arg("default_value", "boollist")>> \o CommonArgs)
      [] tag = "string_array" ->
           Branch(PARAMETER_STRING_ARRAY, FALSE,
                  <<Arg("default_value", "strlist")>> \o CommonArgs)
      [] OTHER -> NoBranch

\* The arguments of a declare call, evaluated left to right: the converted
\* values by field name, or the first exception.
RECURSIVE EvalArgs(_, _, _, _)
EvalNext(values, args, i, acc, r) ==
    IF r.ok
    THEN EvalArgs(values, args, i + 1,
                  [f \in DOMAIN acc \cup {args[i].field} |->
                     IF f = args[i].field THEN r.v ELSE acc[f]])
    ELSE [ok |-> FALSE, v |-> acc, cause |-> r.cause]

EvalArgs(values, args, i, acc) ==
    IF i > Len(args) THEN [ok |-> TRUE, v |-> acc, cause |-> ""]
    ELSE EvalNext(values, args, i, acc, EvalArg(values, args[i]))

\* ---------------------------------------------------------------- declarations
\* Variant: the first declaration of a name is kept (dict.setdefault).
AddToDataKeepFirst(pd, name, type, var_name, validator) ==
    IF name \in DOMAIN pd THEN pd
    ELSE [n \in DOMAIN pd \cup {name} |->
            IF n = name
            THEN [type |-> type, var_name |-> var_name, validator |-> validator]
            ELSE pd[n]]

\* PManager._add_to_data(name, type, var_name, validator)
AddToData(pd, name, type, var_name, validator) ==
    [n \in DOMAIN pd \cup {name} |->
       IF n = name
       THEN [type |-> type, var_name |-> var_name, validator |-> validator]
       ELSE pd[n]]

\* ParameterDescriptor(name=, type=, description=, additional_constraints=,
\* read_only=, dynamic_typing=False[, integer_range=[range]]) and the default.
Descriptor(name, type, default_val, range, desc, constraints, read_only) ==
    [name |-> name, type |-> type, default_val |-> default_val, range |-> range,
     description |-> desc, additional_constraints |-> constraints,
     read_only |-> read_only, dynamic_typing |-> FALSE]

\* IntegerRange / FloatingPointRange(from_value=, to_value=, step=)
Range(from_val, to_val, step) ==
    [from_value |-> from_val, to_value |-> to_val, step |-> step]

\* self._node.declare_parameter(name, default_val, descriptor): the node
\* refuses a name it has already declared, and whatever else it vetoes.
NodeRefuses(np, name, veto) == name \in DOMAIN np \/ name \in veto

NodeDeclare(np, name, descriptor) ==
    [n \in DOMAIN np \cup {name} |-> IF n = name THEN descriptor ELSE np[n]]

\* The manager's state a declare call works on, with the log of the calls
\* made, in order: "add" = _add_to_data(name, ...), "fwd" = the node accepted
\* declare_parameter(name, ...), "refused" = the node raised.
BootState(pd, np) == [pd |-> pd, np |-> np, log |-> <<>>]

Event(ev, name) == [ev |-> ev, name |-> name]

\* Variant: the node is asked first and the store entry is made only when the
\* node has accepted the declaration.
DeclareParameterForwardFirst(bs, name, type, default_val, range, desc, constraints, read_only, var_name, validator, veto) ==
    IF NodeRefuses(bs.np, name, veto)
    THEN [ok |-> FALSE, bs |-> [bs EXCEPT !.log = @ \o <<Event("refused", name)>>]]
    ELSE [ok |-> TRUE,
          bs |-> [pd |-> AddToData(bs.pd, name, type, var_name, validator),
                  np |-> NodeDeclare(bs.np, name,
                           Descriptor(name, type, default_val, range, desc,
                                      constraints, read_only)),
                  log |-> bs.log \o <<Event("fwd", name), Event("add", name)>>]]

\* PManager._declare_<type>_parameter(name, ...): the store entry first, then
\* the declaration on the node.  ok is FALSE when the node raised.
DeclareParameter(bs, name, type, default_val, range, desc, constraints, read_only, var_name, validator, veto) ==
    [ok |-> ~NodeRefuses(bs.np, name, veto),
     bs |-> [pd |-> AddToData(bs.pd, name, type, var_name, validator),
             np |-> IF NodeRefuses(bs.np, name, veto) THEN bs.np
                    ELSE NodeDeclare(bs.np, name,
                           Descriptor(name, type, default_val, range, desc,
                                      constraints, read_only)),
             log |-> bs.log \o
                     <<Event("add", name),
                       Event(IF NodeRefuses(bs.np, name, veto) THEN "refused" ELSE "fwd",
                             name)>>]]

\* PManager.declare_byte_array_parameter(name, default_val, desc, constraints,
\* read_only, var_name, validator)
DeclareByteArrayParameter(bs, name, default_val, desc, constraints, read_only, var_name, validator, veto) ==
    DeclareParameter(bs, name, PARAMETER_BYTE_ARRAY, default_val, <<>>, desc,
                     constraints, read_only, var_name, validator, veto)

\* ---------------------------------------------------------------- bulk loader
\* Python's order on str: by code point, a proper prefix first.
LexLess(s, t) ==
    \E i \in 1..(Len(s) + 1) :
       /\ i <= Len(t)
       /\ \A j \in 1..(i - 1) : s[j] = t[j]
       /\ (i > Len(s) \/ s[i] < t[i])

\* Variant: sorted(..., reverse=True).
ItemLessReversed(a, b) == LexLess(b[1], a[1])

\* The order sorted() uses on the (key, value) items of a dict: by key, the
\* keys of a dict being distinct.
ItemLess(a, b) == LexLess(a[1], b[1])

\* sorted(params_yaml['params'].items()), as an insertion sort.
RECURSIVE InsertItem(_, _)
InsertItem(x, sorted) ==
    IF sorted = <<>> THEN <<x>>
    ELSE IF ItemLess(x, Head(sorted)) THEN <<x>> \o sorted
    ELSE <<Head(sorted)>> \o InsertItem(x, Tail(sorted))

RECURSIVE SortedItems(_)
SortedItems(items) ==
    IF items = <<>> THEN <<>>
    ELSE InsertItem(Head(items), SortedItems(Tail(items)))

NoError == [name |-> <<>>, cause |-> ""]

\* raise RuntimeError(f"Failed to parse configuration of parameter {param_name}: {e}")
ParameterError(name, cause) == [name |-> name, cause |-> cause]

Loaded(bs) == [outcome |-> "ok", err |-> NoError, bs |-> bs]

Aborted(bs, err) == [outcome |-> "raised", err |-> err, bs |-> bs]

\* values['type'] as the chain of == comparisons sees it: only a str equals a
\* type tag.
TypeTag(values) == IF values["type"].kind = "str" THEN values["type"].s ELSE ""

\* The end of a declare call inside the try block: the node's refusal is
\* an exception like any other.
DeclareOutcome(d, param_name) ==
    IF d.ok THEN Loaded(d.bs)
    ELSE Aborted(d.bs, ParameterError(param_name, "NodeError"))

\* self._declare_<type>_parameter(param_name, <converted arguments>)
DeclareWithArgs(bs, param_name, branch, a, veto) ==
    DeclareOutcome(
        DeclareParameter(bs, param_name, branch.type, a["default_value"],
            IF branch.ranged
            THEN <<Range(a["min_value"].n, a["max_value"].n, a["step"].n)>>
            ELSE <<>>,
            a["description"].s, a["constraints"].s, a["read_only"].n = 1,
            a["var_name"].s, a["validator"].s, veto),
        param_name)

\* The arguments are evaluated before the call: an exception among them
\* leaves the store as it was.
DeclareEvaluated(bs, param_name, branch, r, veto) ==
    IF ~r.ok THEN Aborted(bs, ParameterError(param_name, r.cause))
    ELSE DeclareWithArgs(bs, param_name, branch, r.v, veto)

\* if values['type'] == ... elif ... else: raise ValueError(unsupported)
DeclareBranch(bs, param_name, values, branch, veto) ==
    IF branch = NoBranch
    THEN Aborted(bs, ParameterError(param_name, "ValueError"))
    ELSE DeclareEvaluated(bs, param_name, branch,
                          EvalArgs(values, branch.args, 1, <<>>), veto)

\* The body of the try block for one (param_name, values): the dispatch on
\* values['type'], the conversion of the arguments and the declare call.
DeclareFromRecord(bs, param_name, values, veto) ==
    IF "type" \notin DOMAIN values
    THEN Aborted(bs, ParameterError(param_name, "KeyError"))
    ELSE DeclareBranch(bs, param_name, values, BranchOf(TypeTag(values)), veto)

\* for (param_name, values) in params_dict.items(): try ... except
RECURSIVE ParseParamsLoop(_, _, _, _)
\* Variant: the except clause goes on with the next record.
ParseParamsNextResuming(items, i, r, veto) == ParseParamsLoop(items, i + 1, r.bs, veto)

ParseParamsNext(items, i, r, veto) ==
    IF r.outcome = "ok" THEN ParseParamsLoop(items, i + 1, r.bs, veto) ELSE r

ParseParamsLoop(items, i, bs, veto) ==
    IF i > Len(items) THEN Loaded(bs)
    ELSE ParseParamsNext(items, i,
                         DeclareFromRecord(bs, items[i][1], items[i][2], veto), veto)

\* PManager._parse_params_file(params_file): the file cannot be opened, is no
\* YAML, is empty or has no 'params' key; otherwise its records are declared
\* in sorted order.
ParseParamsFile(bs, file, veto) ==
    IF file.kind # "doc"
    THEN Aborted(bs, ParameterError(<<>>, file.kind))
    ELSE ParseParamsLoop(SortedItems(file.items), 1, bs, veto)

\* if len(params_file_path) == 0: return; self._parse_params_file(...)
InitDeclared(bs, file, veto) ==
    IF file.kind = "nopath" THEN Loaded(bs) ELSE ParseParamsFile(bs, file, veto)

\* PManager.init(): declares dua.params_file_path on the node, returns when
\* its value is empty, parses the file otherwise.
InitManager(bs, file, veto) ==
    IF NodeRefuses(bs.np, DuaParamsFilePath, veto)
    THEN Aborted(bs, ParameterError(DuaParamsFilePath, "NodeError"))
    ELSE InitDeclared(
           [bs EXCEPT !.np = NodeDeclare(@, DuaParamsFilePath,
                                Descriptor(DuaParamsFilePath, PARAMETER_STRING, YStr(""),
                                           <<>>, "path", "", TRUE))],
           file, veto)

\* ---------------------------------------------------------------- inputs
\* Records of a parameters file.
WithField(rec, f, v) == [k \in DOMAIN rec \cup {f} |-> IF k = f THEN v ELSE rec[k]]

WithoutField(rec, f) == [k \in DOMAIN rec \ {f} |-> rec[k]]

Record(tag, default_val, read_only) ==
    [k \in {"type", "default_value", "description", "constraints", "read_only"} |->
       CASE k = "type" -> YStr(tag)
         [] k = "default_value" -> default_val
         [] k = "description" -> YStr("d")
         [] k = "constraints" -> YStr("")
         [] OTHER -> read_only]

Ranged(rec, lo, hi, step) ==
    WithField(WithField(WithField(rec, "min_value", lo), "max_value", hi), "step", step)

Bound(rec, var_name, validator) ==
    WithField(WithField(rec, "var_name", YStr(var_name)), "validator", YStr(validator))

\* string, mirrored in x, validated by chk
RecText == Bound(Record("string", YStr("x"), YStr("false")), "x", "chk")

\* integer 0..1 step 1, read-only, mirrored in y, no validator
RecCount ==
    WithField(Ranged(Record("integer", YInt(0), YBool(TRUE)), YInt(0), YStr("1"), YInt(1)),
              "var_name", YStr("y"))

\* integer whose field and validator are not attributes of the node
RecWeak ==
    Bound(Ranged(Record("integer", YInt(0), YStr("False")), YInt(0), YInt(1), YInt(0)),
          "ghost", "ghost")

\* string without field whose validator names a data field
RecLoose == WithField(Record("string", YStr(""), YBool(FALSE)), "validator", YStr("x"))

\* integer mirrored in x whose validator raises
RecBoom ==
    Bound(Ranged(Record("integer", YInt(1), YStr("false")), YInt(0), YInt(1), YInt(1)),
          "x", "boom")

\* string mirrored in a property without setter
RecProp == WithField(Record("string", YStr("p"), YStr("true")), "var_name", YStr("ro"))

\* the other type tags
RecGain ==
    Bound(Ranged(Record("double", YInt(1), YBool(FALSE)), YInt(0), YInt(2), YInt(0)),
          "y", "chk")

RecFlag == Bound(Record("bool", YStr("True"), YBool(FALSE)), "x", "")

RecInts ==
    Bound(Ranged(Record("integer_array", YList(<<YInt(1), YStr("2")>>), YBool(FALSE)),
                 YInt(0), YInt(2), YInt(1)), "x", "")

RecGains ==
    Bound(Ranged(Record("double_array", YList(<<YInt(1)>>), YBool(FALSE)),
                 YInt(0), YInt(2), YInt(0)), "y", "")

RecFlags == Bound(Record("bool_array", YList(<<YBool(TRUE), YStr("false")>>), YBool(TRUE)),
                  "", "chk")

RecTexts == Bound(Record("string_array", YList(<<YStr("u"), YInt(3)>>), YBool(FALSE)),
                  "y", "")

\* malformed records
RecBadBool == WithField(RecText, "read_only", YStr("yes"))

RecNoMin == WithoutField(RecGain, "min_value")

RecBadTag == WithField(RecText, "type", YStr("byte_array"))

RecNoDesc == WithoutField(RecCount, "description")

RecBadFlags == WithField(RecFlags, "default_value", YList(<<YBool(TRUE), YStr("TRUE")>>))

\* integer whose min_value is greater than its max_value
RecInverted == WithField(WithField(RecCount, "min_value", YInt(1)), "max_value", YInt(0))

\* A mapping name -> record, a function on a subset of Names.
Restrict(m, D) == [n \in D |-> m[n]]

SubMappings(m) == {Restrict(m, D) : D \in SUBSET DOMAIN m}

MappingOf(ra, rab, rb) ==
    [n \in Names |-> CASE n = <<1>> -> ra [] n = <<1, 2>> -> rab [] OTHER -> rb]

\* The iteration orders of a mapping: its items in every order.
Orders(m) ==
    LET k == Cardinality(DOMAIN m)
    IN  {[i \in 1..k |-> <<f[i], m[f[i]]>>] :
           f \in {g \in [1..k -> DOMAIN m] : \A i, j \in 1..k : i # j => g[i] # g[j]}}

DocFile(items) == [kind |-> "doc", items |-> items]

NoDocFile(kind) == [kind |-> kind, items |-> <<>>]

\* The files of the update specification: the sub-mappings of two well-formed
\* files, and two files with the remaining type tags.
UpdateFiles ==
    {NoDocFile("nopath")} \cup
    {DocFile(d) :
       d \in UNION {Orders(m) :
              m \in SubMappings(MappingOf(RecText, RecCount, RecWeak)) \cup
                    SubMappings(MappingOf(RecBoom, RecProp, RecLoose)) \cup
                    {MappingOf(RecGain, RecFlag, RecInts),
                     MappingOf(RecGains, RecFlags, RecTexts)}}}

\* The files of the load specification: every mapping over a catalogue of
\* well-formed and malformed records, and the files that cannot be loaded.
LoadCatalogue ==
    {RecText, RecCount, RecGain, RecInverted,
     RecBadBool, RecNoMin, RecBadTag, RecNoDesc, RecBadFlags}

LoadFiles ==
    {NoDocFile(k) : k \in {"nopath", "FileNotFoundError", "YAMLError", "Invalid"}} \cup
    {DocFile(d) :
       d \in UNION {Orders(m) : m \in UNION {[D -> LoadCatalogue] : D \in SUBSET Names}}}

\* What the node vetoes in one call, besides names it has already declared.
NoVeto == {{}}

Vetoes == {{}} \cup {{n} : n \in Names \cup {DuaParamsFilePath}}

\* Parameters of a batch: rclpy.Parameter(name, type_, value).
BatchTypes == {PARAMETER_INTEGER, PARAMETER_STRING}

Values == {1, 2}

Parameters == [name : Names, type_ : BatchTypes, value : Values]

Batches == UNION {[1..k -> Parameters] : k \in 0..MaxBatch}

\* ---------------------------------------------------------------- state
VARIABLES
    params_data,   \* PManager._params_data: name -> {type, var_name, validator}
    attrs,         \* the attributes of PManager._node
    node_params,   \* the parameters declared on the node: name -> descriptor
    last           \* the call that has just ended, with what it did

vars == <<params_data, attrs, node_params, last>>

Idle ==
    [op |-> "none", outcome |-> "ok", batch |-> <<>>, file |-> NoDocFile("nopath"),
     name |-> <<>>, successful |-> TRUE, reason |-> EmptyReason, writes |-> <<>>,
     calls |-> <<>>, stop |-> 0, log |-> <<>>, err |-> NoError,
     entry |-> [type |-> 0, var_name |-> "", validator |-> ""],
     before |-> [pd |-> <<>>, attrs |-> <<>>]]

\* The store and the node's attributes as a call finds them.
Before == [pd |-> params_data, attrs |-> attrs]

\* PManager.__init__: an empty store
Init ==
    /\ params_data = <<>>
    /\ attrs = InitialAttrs
    /\ node_params = <<>>
    /\ last = Idle

InitEnds(file, r) ==
    /\ params_data' = r.bs.pd
    /\ node_params' = r.bs.np
    /\ last' = [Idle EXCEPT !.op = "init", !.outcome = r.outcome, !.file = file,
                            !.log = r.bs.log, !.err = r.err, !.before = Before]

DeclareEnds(name, var_name, validator, d) ==
    /\ params_data' = d.bs.pd
    /\ node_params' = d.bs.np
    /\ last' = [Idle EXCEPT !.op = "declare",
                            !.outcome = IF d.ok THEN "ok" ELSE "raised",
                            !.name = name, !.log = d.bs.log,
                            !.err = IF d.ok THEN NoError
                                    ELSE ParameterError(name, "NodeError"),
                            !.entry = [type |-> PARAMETER_BYTE_ARRAY,
                                       var_name |-> var_name, validator |-> validator],
                            !.before = Before]

ApplyEnds(batch, r) ==
    /\ attrs' = r.attrs
    /\ last' = [Idle EXCEPT !.op = "apply", !.outcome = r.outcome, !.batch = batch,
                            !.successful = r.successful, !.reason = r.reason,
                            !.writes = r.writes, !.calls = r.calls, !.stop = r.stop,
                            !.before = Before]

\* The value of dua.params_file_path, which init() gets from the node once
\* the node has declared it: the file it names, if any.
FilesRead(files, veto) ==
    IF NodeRefuses(node_params, DuaParamsFilePath, veto)
    THEN {NoDocFile("nopath")}
    ELSE files

\* init() is called.
InitCall(files, vetoes) ==
    /\ last.op = "none"
    /\ \E veto \in vetoes :
         \E file \in FilesRead(files, veto) :
            InitEnds(file, InitManager(BootState(params_data, node_params), file, veto))
    /\ UNCHANGED attrs

\* declare_byte_array_parameter() is called for a name.
DeclareCall(names, var_names, validators, read_onlys, vetoes) ==
    /\ last.op = "none"
    /\ \E name \in names, var_name \in var_names, validator \in validators,
          read_only \in read_onlys, veto \in vetoes :
         DeclareEnds(name, var_name, validator,
            DeclareByteArrayParameter(BootState(params_data, node_params), name,
               YList(<<>>), "d", "", read_only, var_name, validator, veto))
    /\ UNCHANGED attrs

\* Variant: the callback takes the entries of the batch's names out of the
\* store (dict.pop instead of dict.get).
ApplyCallPopping ==
    /\ last.op = "none"
    /\ \E batch \in Batches :
         /\ ApplyEnds(batch, OnSetParametersCallback(params_data, attrs, batch))
         /\ params_data' =
               Restrict(params_data,
                        DOMAIN params_data \ {batch[i].name : i \in 1..Len(batch)})
    /\ UNCHANGED node_params

\* The node calls the update callback with a batch.
ApplyCall ==
    /\ last.op = "none"
    /\ \E batch \in Batches :
         ApplyEnds(batch, OnSetParametersCallback(params_data, attrs, batch))
    /\ UNCHANGED <<params_data, node_params>>

\* The caller has taken the outcome of the call.
Return ==
    /\ last.op # "none"
    /\ last' = Idle
    /\ UNCHANGED <<params_data, attrs, node_params>>

Next ==
    \/ InitCall(UpdateFiles, NoVeto)
    \/ ApplyCall
    \/ Return

Spec == Init /\ [][Next]_vars

NextLoad ==
    \/ InitCall(LoadFiles, Vetoes)
    \/ DeclareCall({<<1, 2>>}, {"x", ""}, {"chk"}, BOOLEAN, Vetoes)
    \/ Return

SpecLoad == Init /\ [][NextLoad]_vars

\* Loads, declarations and updates in any order.
NextAll ==
    \/ InitCall(UpdateFiles, NoVeto)
    \/ DeclareCall({<<1, 2>>}, {"x"}, {""}, {FALSE}, NoVeto)
    \/ ApplyCall
    \/ Return

SpecAll == Init /\ [][NextAll]_vars

\* Loads and declarations that the node may refuse, and updates.
RefusalFiles ==
    {NoDocFile("nopath")} \cup
    {DocFile(d) :
       d \in UNION {Orders(m) : m \in SubMappings(MappingOf(RecText, RecCount, RecWeak))}}

NextRefuse ==
    \/ InitCall(RefusalFiles, Vetoes)
    \/ DeclareCall({<<1, 2>>}, {"x"}, {"chk"}, {FALSE}, Vetoes)
    \/ ApplyCall
    \/ Return

SpecRefuse == Init /\ [][NextRefuse]_vars

\* The texts given for booleans in the files of the boolean specification.
BoolWords == {"true", "True", "false", "False", "yes", "TRUE", "", "FALSE", "1", "no"}

\* Records that give a boolean by the text w: as read_only, as the default of
\* a bool and as an element of the default of a bool_array.
BoolRecReadOnly(w) == WithField(RecText, "read_only", YStr(w))

BoolRecDefault(w) == WithField(RecFlag, "default_value", YStr(w))

BoolRecElement(w) == WithField(RecFlags, "default_value", YList(<<YBool(TRUE), YStr(w)>>))

BoolCatalogue ==
    UNION {{BoolRecReadOnly(w), BoolRecDefault(w), BoolRecElement(w)} : w \in BoolWords}

BoolFiles ==
    {NoDocFile("nopath")} \cup
    {DocFile(d) :
       d \in UNION {Orders(m) :
              m \in UNION {[D -> BoolCatalogue] : D \in SUBSET {<<1>>, <<2>>}}}}

NextBool ==
    \/ InitCall(BoolFiles, NoVeto)
    \/ Return

SpecBool == Init /\ [][NextBool]_vars

\* ---------------------------------------------------------------- update callback: properties
\* The call that has just ended is a call of the update callback.
Applied == last.op = "apply"

ApplyReturned == Applied /\ last.outcome = "returned"

Items == 1..Len(last.batch)

\* Item i of the batch names a declared parameter; its store entry.
ItemDeclared(i) == last.batch[i].name \in DOMAIN last.before.pd

ItemEntry(i) == last.before.pd[last.batch[i].name]

ItemTypeDiffers(i) == last.batch[i].type_ # ItemEntry(i).type

\* The entry's validator names a method of the node.
ItemHasValidator(i) ==
    /\ ItemEntry(i).validator \in DOMAIN last.before.attrs
    /\ last.before.attrs[ItemEntry(i).validator].kind = "method"

\* The entry's backing field names an attribute of the node.
ItemHasField(i) == ItemEntry(i).var_name \in DOMAIN last.before.attrs

\* Item i is one the callback rejects: declared, and of another type than
\* declared or turned down by the node's validator.
ItemRejected(i) ==
    /\ ItemDeclared(i)
    /\ \/ ItemTypeDiffers(i)
       \/ ItemHasValidator(i) /\ CallMethod(ItemEntry(i).validator, last.batch[i]) = "reject"

SomeRejected == \E i \in Items : ItemRejected(i)

FirstRejected == CHOOSE i \in Items : ItemRejected(i) /\ \A j \in 1..(i - 1) : ~ItemRejected(j)

\* The setattr calls of the call wrote item i's value to item i's field.
ItemWritten(i) ==
    \E k \in 1..Len(last.writes) :
       /\ last.writes[k].idx = i
       /\ last.writes[k].var = ItemEntry(i).var_name
       /\ last.writes[k].value = last.batch[i].value

WrittenVars == {last.writes[k].var : k \in 1..Len(last.writes)}

LastWriteTo(v) ==
    last.writes[CHOOSE k \in 1..Len(last.writes) :
                  /\ last.writes[k].var = v
                  /\ \A m \in (k + 1)..Len(last.writes) : last.writes[m].var # v]

\* The node's attributes are those before the call, but for the fields
\* written, which hold the value written last.
AttrsFollowWrites ==
    /\ DOMAIN attrs = DOMAIN last.before.attrs
    /\ \A v \in DOMAIN attrs :
          IF v \in WrittenVars THEN attrs[v] = [kind |-> "field", val |-> LastWriteTo(v).value]
          ELSE attrs[v] = last.before.attrs[v]

\* C1: when the callback returns from a batch that holds an item it rejects,
\* the result is unsuccessful, every declared item before the first rejected
\* one has been written to its backing field when that field is an attribute
\* of the node, and nothing at or after the first rejected item is written.
C1_ShortCircuit ==
    (ApplyReturned /\ SomeRejected) =>
       /\ ~last.successful
       /\ last.stop = FirstRejected
       /\ \A i \in 1..(FirstRejected - 1) :
             (ItemDeclared(i) /\ ItemHasField(i)) => ItemWritten(i)
       /\ \A k \in 1..Len(last.writes) : last.writes[k].idx < FirstRejected
       /\ AttrsFollowWrites

\* A batch of three parameters whose second item fails the type check after
\* the first was written, the third being one that would have been written.
C1_Witness ==
    /\ ApplyReturned /\ ~last.successful
    /\ Len(last.batch) = 3 /\ last.stop = 2
    /\ ItemDeclared(2) /\ ItemTypeDiffers(2)
    /\ Len(last.writes) = 1 /\ last.writes[1].idx = 1
    /\ ItemDeclared(3) /\ ~ItemTypeDiffers(3) /\ ItemHasField(3)
    /\ attrs[ItemEntry(3).var_name] = last.before.attrs[ItemEntry(3).var_name]
    /\ attrs[ItemEntry(3).var_name].val # last.batch[3].value

\* C2: an unsuccessful result names the first rejected item of the batch and
\* tells a type mismatch from a failed validation; a successful result has
\* the empty reason.
C2_FailureReason ==
    ApplyReturned =>
       IF last.successful
       THEN last.reason = <<>>
       ELSE /\ SomeRejected
            /\ last.reason =
                 IF ItemTypeDiffers(FirstRejected)
                 THEN <<"Parameter '", last.batch[FirstRejected].name, "' type mismatch">>
                 ELSE <<"Parameter '", last.batch[FirstRejected].name,
                        "' update validation failed">>

\* A failed validation at the second item, and a type mismatch elsewhere in
\* the same batch that is not the one reported.
C2_Witness ==
    /\ ApplyReturned /\ ~last.successful
    /\ Len(last.batch) = 3 /\ last.stop = 2
    /\ ~ItemTypeDiffers(2)
    /\ last.reason = <<"Parameter '", last.batch[2].name, "' update validation failed">>
    /\ ItemDeclared(3) /\ ItemTypeDiffers(3)

\* C3: an item whose name the store does not hold causes no write, no
\* validator call and no end of the loop, and a batch of such items only
\* returns success and leaves the node's attributes as they were.
C3_UnknownNames ==
    Applied =>
       /\ \A i \in Items :
             ~ItemDeclared(i) =>
                /\ \A k \in 1..Len(last.writes) : last.writes[k].idx # i
                /\ \A k \in 1..Len(last.calls) : last.calls[k] # i
                /\ last.stop # i
       /\ (\A i \in Items : ~ItemDeclared(i)) =>
             /\ last.outcome = "returned" /\ last.successful /\ last.reason = <<>>
             /\ last.writes = <<>> /\ last.calls = <<>>
             /\ attrs = last.before.attrs

\* A store with declarations, a batch that starts with an unknown name and
\* goes on to write a declared parameter.
C3_Witness ==
    /\ ApplyReturned /\ last.successful
    /\ Len(last.batch) = 2
    /\ ~ItemDeclared(1) /\ ItemDeclared(2)
    /\ Len(last.writes) = 1 /\ last.writes[1].idx = 2

\* Item i names a parameter the node holds as read-only.
ItemReadOnly(i) ==
    /\ ItemDeclared(i)
    /\ last.batch[i].name \in DOMAIN node_params
    /\ node_params[last.batch[i].name].read_only

NoneRejectedUpTo(i) == \A j \in 1..i : ~ItemRejected(j)

C6_AlwaysReturns == Applied => last.outcome = "returned"

\* C7: for a declared item of the declared type that the loop reaches: when
\* the entry's validator is empty or no method of the node, no validator is
\* called and the item goes on to the write as an accepted item does; when
\* the entry's field is empty or no attribute of the node, nothing is written
\* for the item, no attribute is created, and the loop goes on to the next
\* item unless the validator ended it.
C7_WeakReferences ==
    Applied =>
       /\ DOMAIN attrs = DOMAIN last.before.attrs
       /\ \A i \in Items :
             (i <= last.stop /\ ItemDeclared(i) /\ ~ItemTypeDiffers(i)) =>
                /\ ~ItemHasValidator(i) =>
                      /\ \A k \in 1..Len(last.calls) : last.calls[k] # i
                      /\ ItemHasField(i) =>
                            \/ ItemWritten(i) /\ last.stop > i
                            \/ /\ last.before.attrs[ItemEntry(i).var_name].kind = "property"
                               /\ last.stop = i /\ last.outcome = "raised"
                      /\ ~ItemHasField(i) => last.stop > i
                /\ ~ItemHasField(i) =>
                      /\ \A k \in 1..Len(last.writes) : last.writes[k].idx # i
                      /\ last.stop = i =>
                            /\ ItemHasValidator(i)
                            /\ CallMethod(ItemEntry(i).validator, last.batch[i]) # "accept"

\* A parameter whose field and validator are no attributes of the node and a
\* parameter without field whose validator is a data field pass, and the
\* item after them is written.
C7_Witness ==
    /\ ApplyReturned /\ last.successful /\ Len(last.batch) = 3
    /\ ItemDeclared(1) /\ ~ItemTypeDiffers(1)
    /\ ItemEntry(1).validator = "ghost" /\ ItemEntry(1).var_name = "ghost"
    /\ ItemDeclared(2) /\ ~ItemTypeDiffers(2)
    /\ ItemEntry(2).validator = "" /\ ItemHasField(2)
    /\ ItemDeclared(3) /\ ItemWritten(3)
    /\ last.calls = <<3>>
    /\ Len(last.writes) = 2

\* A parameter without field whose validator names a data field of the node
\* passes without a validator call.
C7_WitnessNotCallable ==
    /\ ApplyReturned /\ last.successful /\ Len(last.batch) = 1
    /\ ItemDeclared(1) /\ ~ItemTypeDiffers(1)
    /\ ItemEntry(1).validator = "x" /\ ItemEntry(1).var_name = ""
    /\ last.calls = <<>> /\ last.writes = <<>>

\* The reasons the callback documents for a rejected batch.
DocumentedReason ==
    \E i \in Items :
       \/ last.reason = <<"Parameter '", last.batch[i].name, "' type mismatch">>
       \/ last.reason = <<"Parameter '", last.batch[i].name, "' update validation failed">>

\* C8: an item of the declared type for a parameter whose backing field is an
\* attribute of the node is either written unchanged to that field, or the
\* batch is rejected with a documented reason; every write carries the value
\* of its item and the fields hold what was written.
C8_RoundTrip ==
    Applied =>
       /\ \A k \in 1..Len(last.writes) :
             last.writes[k].value = last.batch[last.writes[k].idx].value
       /\ AttrsFollowWrites
       /\ \A i \in Items :
             (ItemDeclared(i) /\ ~ItemTypeDiffers(i) /\ ItemHasField(i)) =>
                \/ ItemWritten(i)
                \/ last.outcome = "returned" /\ ~last.successful /\ DocumentedReason

\* ------------------------------------------------------------ bulk load claims
\* init() has read a file with a 'params' mapping.
LoadedFile == last.op = "init" /\ last.file.kind = "doc"

FileNames == {last.file.items[k][1] : k \in 1..Len(last.file.items)}

FileRecord(n) ==
    last.file.items[CHOOSE k \in 1..Len(last.file.items) : last.file.items[k][1] = n][2]

\* The positions of the log at which something was done for name n.
EventsOf(n) == {k \in 1..Len(last.log) : last.log[k].name = n}

\* The load inserted n in the store and the node accepted it.
DeclaredByLoad(n) ==
    /\ \E k \in EventsOf(n) : last.log[k].ev = "add"
    /\ \E k \in EventsOf(n) : last.log[k].ev = "fwd"

\* C9: a load declares the records in lexicographic order of their names,
\* whatever the order of the items in the file: every step (store insertion,
\* forward to the node) for a name comes before every step for a greater
\* name, the insertion of a name is directly followed by its forward, a
\* greater name is touched only after the smaller one was inserted and
\* accepted, and a load that ends well has declared every name of the file.
C9_LexicographicOrder ==
    LoadedFile =>
       /\ \A k \in 1..Len(last.log) : last.log[k].name \in FileNames
       /\ \A i, j \in 1..Len(last.log) :
             i < j => \/ last.log[i].name = last.log[j].name
                      \/ LexLess(last.log[i].name, last.log[j].name)
       /\ \A k \in 1..Len(last.log) :
             IF k % 2 = 1
             THEN /\ last.log[k].ev = "add"
                  /\ k < Len(last.log)
                  /\ last.log[k + 1].name = last.log[k].name
             ELSE last.log[k].ev \in {"fwd", "refused"}
       /\ \A n1, n2 \in FileNames :
             (LexLess(n1, n2) /\ EventsOf(n2) # {}) => DeclaredByLoad(n1)
       /\ last.outcome = "ok" => \A n \in FileNames : DeclaredByLoad(n)

\* A file that lists b, ab, a in this order is declared as a, ab, b.
C9_Witness ==
    /\ LoadedFile /\ last.outcome = "ok"
    /\ Len(last.file.items) = 3
    /\ last.file.items[1][1] = <<2>>
    /\ last.file.items[2][1] = <<1, 2>>
    /\ last.file.items[3][1] = <<1>>
    /\ Len(last.log) = 6
    /\ last.log[1] = [ev |-> "add", name |-> <<1>>]
    /\ last.log[4] = [ev |-> "fwd", name |-> <<1, 2>>]
    /\ last.log[6] = [ev |-> "fwd", name |-> <<2>>]

\* The texts that stand for a boolean.
BoolTexts == {"true", "True", "false", "False"}

SupportedTags ==
    {"integer", "double", "bool", "string",
     "integer_array", "double_array", "bool_array", "string_array"}

RequiredFields(tag) ==
    {"type", "default_value", "description", "constraints", "read_only"} \cup
    (IF tag \in {"integer", "double"} THEN {"min_value", "max_value", "step"} ELSE {})

\* A malformed record: a required field or a bound of a numeric type is
\* missing, the type tag is not supported, or a boolean is given by a text
\* that stands for none.
Malformed(values) ==
    \/ "type" \notin DOMAIN values
    \/ TypeTag(values) \notin SupportedTags
    \/ ~(RequiredFields(TypeTag(values)) \subseteq DOMAIN values)
    \/ PyStr(values["read_only"]) \notin BoolTexts
    \/ /\ TypeTag(values) = "bool"
       /\ PyStr(values["default_value"]) \notin BoolTexts
    \/ /\ TypeTag(values) = "bool_array"
       /\ \E k \in 1..Len(values["default_value"].elems) :
             PyStr(values["default_value"].elems[k]) \notin BoolTexts

\* The store entry a well-formed record asks for.
EntryOf(values) ==
    [type |-> BranchOf(TypeTag(values)).type,
     var_name |-> IF "var_name" \in DOMAIN values THEN PyStr(values["var_name"]) ELSE "",
     validator |-> IF "validator" \in DOMAIN values THEN PyStr(values["validator"]) ELSE ""]

\* The load did nothing for n: the store holds for n what it held before.
Untouched(n) ==
    /\ EventsOf(n) = {}
    /\ n \in DOMAIN params_data <=> n \in DOMAIN last.before.pd
    /\ n \in DOMAIN params_data => params_data[n] = last.before.pd[n]

\* C10: a load of a file with a malformed record aborts with an error that
\* names the record at which it stopped.  That record is the first malformed
\* one in name order, unless the node refused a well-formed record before it.
\* Every record before the named one is well-formed, was inserted in the store
\* with its type, field and validator and accepted by the node, and stays so;
\* a malformed record is never inserted, and nothing is done for any record
\* after the named one.
C10_MalformedAborts ==
    (LoadedFile /\ \E n \in FileNames : Malformed(FileRecord(n))) =>
       /\ last.outcome = "raised"
       /\ last.err.name \in FileNames
       /\ \A n \in FileNames :
             /\ LexLess(n, last.err.name) =>
                   /\ ~Malformed(FileRecord(n))
                   /\ DeclaredByLoad(n)
                   /\ n \in DOMAIN params_data /\ params_data[n] = EntryOf(FileRecord(n))
                   /\ n \in DOMAIN node_params
             /\ LexLess(last.err.name, n) => Untouched(n)
             /\ Malformed(FileRecord(n)) => Untouched(n)
       /\ IF Malformed(FileRecord(last.err.name))
          THEN last.err.cause # "NodeError"
          ELSE /\ last.err.cause = "NodeError"
               /\ \E k \in EventsOf(last.err.name) : last.log[k].ev = "refused"
       /\ (\A k \in 1..Len(last.log) : last.log[k].ev # "refused") =>
             /\ Malformed(FileRecord(last.err.name))
             /\ \A n \in FileNames : Malformed(FileRecord(n)) => ~LexLess(n, last.err.name)

\* A file that lists b, ab, a with a malformed ab: the load stops at ab, a is
\* declared, ab and b are not.
C10_Witness ==
    /\ LoadedFile /\ last.outcome = "raised"
    /\ Len(last.file.items) = 3
    /\ last.file.items[1][1] = <<2>>
    /\ Malformed(FileRecord(<<1, 2>>))
    /\ ~Malformed(FileRecord(<<2>>))
    /\ last.err.name = <<1, 2>> /\ last.err.cause # "NodeError"
    /\ last.before.pd = <<>>
    /\ DOMAIN params_data = {<<1>>}
    /\ DOMAIN node_params = {DuaParamsFilePath, <<1>>}

\* ---------------------------------------------------------------- range claims
\* A numeric record whose min_value is greater than its max_value.
Inverted(values) ==
    /\ TypeTag(values) \in {"integer", "double"}
    /\ {"min_value", "max_value"} \subseteq DOMAIN values
    /\ PyNumber(values["min_value"]).ok /\ PyNumber(values["max_value"]).ok
    /\ PyNumber(values["min_value"]).v.n > PyNumber(values["max_value"]).v.n

\* C11: every range the node holds has from_value <= to_value, and a load of
\* a file with a numeric record whose min_value is greater than its max_value
\* aborts without inserting that record in the store or forwarding it to the
\* node.
C11_BoundsOrdered ==
    /\ \A n \in DOMAIN node_params :
          \A k \in 1..Len(node_params[n].range) :
             node_params[n].range[k].from_value <= node_params[n].range[k].to_value
    /\ LoadedFile =>
          \A n \in FileNames :
             Inverted(FileRecord(n)) => (last.outcome = "raised" /\ EventsOf(n) = {})

\* -------------------------------------------------------------- boolean claims
TrueTexts == {"true", "True"}

\* The texts of a record that the loader hands to _parse_bool_str.
ParsedTexts(values) ==
    {PyStr(values["read_only"])} \cup
    (IF TypeTag(values) = "bool" THEN {PyStr(values["default_value"])} ELSE {}) \cup
    (IF TypeTag(values) = "bool_array"
     THEN {PyStr(values["default_value"].elems[k]) :
             k \in 1..Len(values["default_value"].elems)}
     ELSE {})

\* The node holds for n the booleans the texts of the record stand for.
BoolsAsWritten(n, values) ==
    /\ node_params[n].read_only = (PyStr(values["read_only"]) \in TrueTexts)
    /\ TypeTag(values) = "bool" =>
          node_params[n].default_val = YBool(PyStr(values["default_value"]) \in TrueTexts)
    /\ TypeTag(values) = "bool_array" =>
          /\ Len(node_params[n].default_val.elems) = Len(values["default_value"].elems)
          /\ \A k \in 1..Len(values["default_value"].elems) :
                node_params[n].default_val.elems[k] =
                   YBool(PyStr(values["default_value"].elems[k]) \in TrueTexts)

\* C12: a boolean given as text is true for "true" and "True", false for
\* "false" and "False", and fails for every other text.  A load of records
\* that are well-formed but for such texts ends well exactly when all texts
\* are among the four, and then the node holds the booleans they stand for;
\* otherwise it aborts with a ValueError naming the first record in name
\* order with another text, and does nothing for any record with another
\* text.
C12_BoolTexts ==
    LoadedFile =>
       /\ last.outcome = "ok" <=>
             \A n \in FileNames : ParsedTexts(FileRecord(n)) \subseteq BoolTexts
       /\ \A n \in FileNames :
             /\ DeclaredByLoad(n) =>
                   /\ ParsedTexts(FileRecord(n)) \subseteq BoolTexts
                   /\ BoolsAsWritten(n, FileRecord(n))
             /\ ~(ParsedTexts(FileRecord(n)) \subseteq BoolTexts) =>
                   /\ last.outcome = "raised"
                   /\ EventsOf(n) = {}
                   /\ n \notin DOMAIN params_data
                   /\ (\A m \in FileNames :
                          LexLess(m, n) => ParsedTexts(FileRecord(m)) \subseteq BoolTexts) =>
                         last.err = [name |-> n, cause |-> "ValueError"]

\* A load that took "True" as read_only for a and stopped at b for the
\* element "TRUE" of a bool_array.
C12_Witness ==
    /\ LoadedFile /\ last.outcome = "raised"
    /\ FileNames = {<<1>>, <<2>>}
    /\ FileRecord(<<1>>)["read_only"] = YStr("True")
    /\ DeclaredByLoad(<<1>>) /\ node_params[<<1>>].read_only
    /\ TypeTag(FileRecord(<<2>>)) = "bool_array"
    /\ "TRUE" \in ParsedTexts(FileRecord(<<2>>))
    /\ last.err = [name |-> <<2>>, cause |-> "ValueError"]

\* A load that took "false" as the default of a bool and "true" as read_only.
C12_WitnessAccepted ==
    /\ LoadedFile /\ last.outcome = "ok"
    /\ FileNames = {<<1>>, <<2>>}
    /\ FileRecord(<<1>>)["default_value"] = YStr("false")
    /\ TypeTag(FileRecord(<<1>>)) = "bool"
    /\ node_params[<<1>>].default_val = YBool(FALSE)
    /\ FileRecord(<<2>>)["read_only"] = YStr("true")
    /\ node_params[<<2>>].read_only

\* ---------------------------------------------------------------- frame claims
\* Item i names a parameter the node holds with a range that does not
\* contain the item's value.
ItemOutOfRange(i) ==
    /\ ItemDeclared(i)
    /\ last.batch[i].name \in DOMAIN node_params
    /\ \E k \in 1..Len(node_params[last.batch[i].name].range) :
          \/ last.batch[i].value < node_params[last.batch[i].name].range[k].from_value
          \/ last.batch[i].value > node_params[last.batch[i].name].range[k].to_value

\* C13: when the callback returns, the batch is accepted exactly when no item
\* is of another type than declared or turned down by its validator; an item
\* whose value lies outside the declared range passes when no item up to it
\* is rejected for these reasons, and its value is written unchanged to its
\* backing field when that field is an attribute of the node; the fields
\* hold the values written last.
C13_NoRangeCheck ==
    ApplyReturned =>
       /\ last.successful <=> ~SomeRejected
       /\ AttrsFollowWrites
       /\ \A i \in Items :
             (ItemOutOfRange(i) /\ NoneRejectedUpTo(i)) =>
                /\ last.stop > i
                /\ ItemHasField(i) => ItemWritten(i)

\* The integer declared with range 0..1 and no validator takes the value 2.
C13_Witness ==
    /\ ApplyReturned /\ last.successful
    /\ Len(last.batch) = 1 /\ last.batch[1].value = 2
    /\ ItemOutOfRange(1)
    /\ ItemEntry(1) = [type |-> PARAMETER_INTEGER, var_name |-> "y", validator |-> ""]
    /\ node_params[last.batch[1].name].range = <<[from_value |-> 0, to_value |-> 1, step |-> 1]>>
    /\ ItemWritten(1)
    /\ last.before.attrs["y"].val = 0 /\ attrs["y"].val = 2

\* C14: the update callback leaves the store as it is, whatever the batch
\* and however the call ends, and no step of any sequence of loads,
\* declarations and updates takes a name out of the store.
C14_StoreFrame ==
    [][/\ last'.op = "apply" => params_data' = params_data
       /\ \A n \in DOMAIN params_data : n \in DOMAIN params_data']_vars

\* A rejected batch that wrote a field and named an undeclared parameter,
\* on a store that a load and a declaration have filled.
C14_Witness ==
    /\ ApplyReturned /\ ~last.successful
    /\ Len(last.writes) >= 1
    /\ \E i \in Items : ~ItemDeclared(i)
    /\ Cardinality(DOMAIN params_data) = 2
    /\ \E n \in DOMAIN params_data : params_data[n].type = PARAMETER_BYTE_ARRAY
    /\ params_data = last.before.pd

\* ------------------------------------------------------------- refusal claims
\* The store entry asked for by the call that made the log, for name n.
EntryAsked(n) == IF last.op = "declare" THEN last.entry ELSE EntryOf(FileRecord(n))

\* Item i names a parameter the store holds and the node has not declared.
ItemOnlyStored(i) == ItemDeclared(i) /\ last.batch[i].name \notin DOMAIN node_params

ItemValidated(i) == \E k \in 1..Len(last.calls) : last.calls[k] = i

\* C15: in a load or a declaration, every forward to the node, accepted or
\* refused, directly follows the store insertion of the same name, and after
\* a refusal the store holds the entry that was asked for.  An update of a
\* name that the store holds and the node never declared is handled as that
\* of any declared name: rejected for its type, rejected by the entry's
\* validator, or passed and written to the entry's field.
C15_InsertBeforeForward ==
    /\ last.op \in {"init", "declare"} =>
          \A k \in 1..Len(last.log) :
             last.log[k].ev \in {"fwd", "refused"} =>
                /\ k > 1
                /\ last.log[k - 1] = [ev |-> "add", name |-> last.log[k].name]
                /\ last.log[k].name \in DOMAIN params_data
                /\ last.log[k].ev = "refused" =>
                      /\ last.outcome = "raised"
                      /\ params_data[last.log[k].name] = EntryAsked(last.log[k].name)
    /\ ApplyReturned =>
          \A i \in Items :
             (ItemOnlyStored(i) /\ NoneRejectedUpTo(i - 1)) =>
                /\ ItemTypeDiffers(i) =>
                      /\ ~last.successful /\ last.stop = i /\ ~ItemValidated(i)
                      /\ last.reason = <<"Parameter '", last.batch[i].name, "' type mismatch">>
                /\ (~ItemTypeDiffers(i) /\ ItemRejected(i)) =>
                      /\ ~last.successful /\ last.stop = i /\ ItemValidated(i)
                      /\ last.reason =
                            <<"Parameter '", last.batch[i].name, "' update validation failed">>
                /\ ~ItemRejected(i) =>
                      /\ last.stop > i
                      /\ ItemHasValidator(i) => ItemValidated(i)
                      /\ ItemHasField(i) => ItemWritten(i)

\* A load that the node stopped at a: the store holds a's entry, the node
\* does not hold a.
C15_WitnessLoad ==
    /\ LoadedFile /\ last.outcome = "raised"
    /\ last.err = [name |-> <<1>>, cause |-> "NodeError"]
    /\ last.before.pd = <<>>
    /\ DOMAIN params_data = {<<1>>}
    /\ params_data[<<1>>] = [type |-> PARAMETER_STRING, var_name |-> "x", validator |-> "chk"]
    /\ <<1>> \notin DOMAIN node_params

\* After such a load an update of a is turned down by a's validator, and
\* another one is written to a's field.
C15_Witness ==
    /\ ApplyReturned /\ ~last.successful
    /\ Len(last.batch) = 2
    /\ ItemOnlyStored(1) /\ ItemOnlyStored(2)
    /\ ItemEntry(1) = [type |-> PARAMETER_STRING, var_name |-> "x", validator |-> "chk"]
    /\ ItemWritten(1)
    /\ last.batch[2].name = last.batch[1].name
    /\ last.calls = <<1, 2>>
    /\ last.reason = <<"Parameter '", last.batch[2].name, "' update validation failed">>

====
